---- MODULE Spec2Model ----
(***************************************************************************)
(* Model of butler's drinks store and of its compliance / streak engine    *)
(* (src/src/butler/storage.py, with the CLI commands of cli.py as the      *)
(* callers that load the store and apply the engine).                      *)
(*                                                                         *)
(* A date is its proleptic Gregorian ordinal (datetime.date.toordinal), so *)
(* date - timedelta(days=n) is d - n.  All dates of the model lie in the   *)
(* years 2024..2027, far from date.min / date.max.                         *)
(* An Optional[int] is <<>> for None and <<n>> for the integer n; an       *)
(* Optional[Entry] is <<>> for None and <<e>> for the entry e.             *)
(***************************************************************************)
EXTENDS Integers, Sequences, FiniteSets, TLC

VARIABLES store, today, out, scan, writers

vars == <<store, today, out, scan, writers>>

\* no calculate_streaks call is under way
ScanIdle == [phase |-> "idle"]

\* no process is inside a load-modify-write
NoWriters == <<>>

\* ------------------------------------------------------------------------
\* Bounds of the model and constants of the program
\* ------------------------------------------------------------------------

\* most rows of a store drawn for the week view
MaxWeekEntries == 4

\* most rows of a sparse store drawn for the streak view
MaxStreakEntries == 3

\* most rows of a sparse store drawn for the weekends and the look-back
MaxAchieveEntries == 2

\* most rows of a store drawn for the month view
MaxMonthEntries == 2

\* most rows of a file drawn for upsert_entry
MaxUpsertRows == 2

\* most rows of a file drawn for load_entries
MaxLoadRows == 3

\* most rows of a file drawn for the views next to upsert_entry
MaxFrameRows == 2

\* most rows of a store drawn for the pass-by-pass run of calculate_streaks
MaxScanEntries == 1

\* most rows of a store drawn for the upserts around the week in progress
MaxProgressEntries == 2
MaxCliRows == 2
MaxTally == 4
MaxWriterEntries == 1
MaxInsightEntries == 2

\* number of weekly rows of a long history drawn for the streak view
LongWeeks == 106

\* Monday 2026-11-02, the Monday of the week the week view is centred on
WeekMonday == 7 * 105703 + 1

\* "Don't go back more than a year" / "Look back up to a year"
YearDays == 365

\* "Check up to 2 years back"
ComplianceWeeks == 104

\* `for i in range(52)` of the console's compliance streak
ConsoleWeeks == 52

\* the "3" of the Rule of 3: drinking days per week, drinks per day
RuleLimit == 3

None == <<>>

Some(n) == <<n>>

Min(S) == CHOOSE x \in S : \A y \in S : x <= y

Max(S) == CHOOSE x \in S : \A y \in S : x >= y

\* ------------------------------------------------------------------------
\* Entry and the helpers of storage.py
\* ------------------------------------------------------------------------

Entry(day, count, note) == [day |-> day, count |-> count, note |-> note]

\* (self.count or 0)
OrZero(count) == IF count = None THEN 0 ELSE count[1]

\* Entry.gt3
gt3(e) == OrZero(e.count) > RuleLimit

\* date.weekday(): Monday is 0, Sunday is 6
weekday(d) == (d + 6) % 7

\* the first entry of the list with that day, or None
find_entry(entries, day) ==
    LET idx == {i \in 1..Len(entries) : entries[i].day = day}
    IN  IF idx = {} THEN None ELSE Some(entries[Min(idx)])

\* a week that starts on Sunday
week_bounds_sunday_start(anchor) ==
    LET monday == anchor - ((weekday(anchor) + 1) % 7)
        sunday == monday + 6
    IN  <<monday, sunday>>

week_bounds(anchor) ==
    LET monday == anchor - weekday(anchor)
        sunday == monday + 6
    IN  <<monday, sunday>>

\* all_entries = {e.day: e for e in entries}; all_entries.get(day):
\* the last entry of the list with that day wins
DictGet(entries, day) ==
    LET idx == {i \in 1..Len(entries) : entries[i].day = day}
    IN  IF idx = {} THEN None ELSE Some(entries[Max(idx)])

has_drinks(entries, day) ==
    LET entry == DictGet(entries, day)
    IN  entry # None /\ OrZero(entry[1].count) > 0

RECURSIVE GapLoop(_, _, _)
\* the while loop of check_gap_rule; TRUE when it runs to the end
GapLoop(entries, current_day, week_end) ==
    IF current_day > week_end THEN TRUE
    ELSE IF has_drinks(entries, current_day)
            /\ current_day + 1 <= week_end
            /\ has_drinks(entries, current_day + 1)
         THEN FALSE
         ELSE GapLoop(entries, current_day + 1, week_end)

\* the gap rule looking only inside the week's own slice
check_gap_rule_in_week_only(entries, week_start, week_end) ==
    GapLoop(entries, week_start, week_end)

check_gap_rule(entries, week_start, week_end) ==
    LET monday == week_start
    IN  IF has_drinks(entries, monday) /\ has_drinks(entries, monday - 1)
        THEN FALSE
        ELSE GapLoop(entries, week_start, week_end)

\* sum(f(e) for e in subset), subset a list
RECURSIVE SumSeq(_, _, _)
SumSeq(F(_), s, i) ==
    IF i > Len(s) THEN 0 ELSE F(s[i]) + SumSeq(F, s, i + 1)

\* every row with a count taken for a drinking day, a count of 0 too
drinking_days_all_recorded(subset) ==
    LET F(e) == IF e.count # None THEN 1 ELSE 0
    IN  SumSeq(F, subset, 1)

\* sum(1 for e in subset if (e.count or 0) > 0)
drinking_days(subset) ==
    LET F(e) == IF OrZero(e.count) > 0 THEN 1 ELSE 0
    IN  SumSeq(F, subset, 1)

\* sum((e.count or 0) for e in subset)
total_drinks(subset) ==
    LET F(e) == OrZero(e.count)
    IN  SumSeq(F, subset, 1)

\* every row counted as recorded, an absent count too
recorded_days_all_rows(subset) == Len(subset)

\* sum(1 for e in subset if e.count is not None)
recorded_days(subset) ==
    LET F(e) == IF e.count # None THEN 1 ELSE 0
    IN  SumSeq(F, subset, 1)

\* a row with an absent count taken for an abstinent day
abstinent_days_with_absent(subset) ==
    LET F(e) == IF OrZero(e.count) = 0 THEN 1 ELSE 0
    IN  SumSeq(F, subset, 1)

\* sum(1 for e in subset if e.count == 0)
abstinent_days(subset) ==
    LET F(e) == IF e.count = Some(0) THEN 1 ELSE 0
    IN  SumSeq(F, subset, 1)

rule_days_ok(drinking) == drinking <= RuleLimit

\* the limit taken as "fewer than 3"
rule_per_day_ok_strict(subset) ==
    \A i \in 1..Len(subset) : OrZero(subset[i].count) < RuleLimit

\* all((e.count or 0) <= 3 for e in subset)
rule_per_day_ok(subset) ==
    \A i \in 1..Len(subset) : OrZero(subset[i].count) <= RuleLimit

\* the overall verdict of the two older rules only
rule_ok_without_gap(days_ok, per_day_ok, gap_ok) == days_ok /\ per_day_ok

rule_ok(days_ok, per_day_ok, gap_ok) == days_ok /\ per_day_ok /\ gap_ok

\* the week's slice reaching into the Monday after it
WeekSubset_to_next_monday(entries, start, end) ==
    LET InWeek(e) == start <= e.day /\ e.day <= end + 1
    IN  SelectSeq(entries, InWeek)

\* subset = [e for e in entries if start <= e.day <= end]
WeekSubset(entries, start, end) ==
    LET InWeek(e) == start <= e.day /\ e.day <= end
    IN  SelectSeq(entries, InWeek)

summarize_week(entries, anchor) ==
    LET wb == week_bounds(anchor)
        start == wb[1]
        end == wb[2]
        subset == WeekSubset(entries, start, end)
        days_map == [d \in {subset[i].day : i \in 1..Len(subset)} |->
                        DictGet(subset, d)[1]]
        drinking == drinking_days(subset)
        days_ok == rule_days_ok(drinking)
        per_day_ok == rule_per_day_ok(subset)
        gap_ok == check_gap_rule(entries, start, end)
    IN  [start |-> start, end |-> end, days_map |-> days_map,
         drinking_days |-> drinking,
         total_drinks |-> total_drinks(subset),
         recorded_days |-> recorded_days(subset),
         abstinent_days |-> abstinent_days(subset),
         rule_ok |-> rule_ok(days_ok, per_day_ok, gap_ok),
         rule_days_ok |-> days_ok,
         rule_per_day_ok |-> per_day_ok,
         rule_gap_ok |-> gap_ok]

\* ------------------------------------------------------------------------
\* calculate_streaks, with date.today() read from the clock `today`
\* ------------------------------------------------------------------------

RECURSIVE Loop(_, _, _, _)
\* the passes lo..hi of a loop, in order, each turning the loop's variables
\* st into Pass(i, st); the range is split in halves to keep the evaluation
\* shallow.  A body that has hit `break` (st.done) passes st on unchanged.
Loop(Pass(_, _), lo, hi, st) ==
    IF lo > hi THEN st
    ELSE IF lo = hi THEN Pass(lo, st)
    ELSE LET mid == (lo + hi) \div 2
             half == Loop(Pass, lo, mid, st)
         IN  \* the first half is evaluated before the second is entered
             IF half = half THEN Loop(Pass, mid + 1, hi, half) ELSE half

\* the number of passes of `while x <= last: ...; x += 7` started at first
WeeklyPasses(first, last) ==
    IF first > last THEN 0 ELSE (last - first) \div 7 + 1

\* ------------------------------------------------------------------------
\* datetime.date: year, month and day of an ordinal, and back
\* ------------------------------------------------------------------------

IsLeap(y) == y % 4 = 0 /\ (y % 100 # 0 \/ y % 400 = 0)

DaysInMonth(y, mo) ==
    IF mo = 2 THEN (IF IsLeap(y) THEN 29 ELSE 28)
    ELSE IF mo \in {4, 6, 9, 11} THEN 30 ELSE 31

\* the days of the year before the first of the month
RECURSIVE DaysBeforeMonth(_, _)
DaysBeforeMonth(y, mo) ==
    IF mo = 1 THEN 0
    ELSE DaysBeforeMonth(y, mo - 1) + DaysInMonth(y, mo - 1)

\* the days before 1 January of the year
DaysBeforeYear(y) ==
    LET p == y - 1
    IN  p * 365 + p \div 4 - p \div 100 + p \div 400

\* date(y, mo, d).toordinal()
ToOrdinal(y, mo, d) == DaysBeforeYear(y) + DaysBeforeMonth(y, mo) + d

\* date.fromordinal(n): its year, month and day
FromOrdinal(n) ==
    LET y == CHOOSE yy \in (n \div 366)..(n \div 365 + 1) :
                 DaysBeforeYear(yy) < n /\ n <= DaysBeforeYear(yy + 1)
        mo == CHOOSE mm \in 1..12 :
                  /\ DaysBeforeMonth(y, mm) < n - DaysBeforeYear(y)
                  /\ n - DaysBeforeYear(y)
                         <= DaysBeforeMonth(y, mm) + DaysInMonth(y, mm)
    IN  [year |-> y, month |-> mo,
         day |-> n - DaysBeforeYear(y) - DaysBeforeMonth(y, mo)]

\* ------------------------------------------------------------------------
\* month_bounds and summarize_month
\* ------------------------------------------------------------------------

\* the year of a December anchor kept for the following January
month_bounds_same_year(anchor) ==
    LET a == FromOrdinal(anchor)
        first_day == ToOrdinal(a.year, a.month, 1)
        last_day == IF a.month = 12
                    THEN ToOrdinal(a.year, 1, 1) - 1
                    ELSE ToOrdinal(a.year, a.month + 1, 1) - 1
    IN  <<first_day, last_day>>

month_bounds(anchor) ==
    LET a == FromOrdinal(anchor)
        first_day == ToOrdinal(a.year, a.month, 1)
        last_day == IF a.month = 12
                    THEN ToOrdinal(a.year + 1, 1, 1) - 1
                    ELSE ToOrdinal(a.year, a.month + 1, 1) - 1
    IN  <<first_day, last_day>>

\* the month's slice taken as every row of the month's weeks
MonthSubset_whole_weeks(entries, month_start, month_end) ==
    LET InWeeks(e) == /\ month_start - weekday(month_start) <= e.day
                      /\ e.day <= month_end + (6 - weekday(month_end))
    IN  SelectSeq(entries, InWeeks)

\* month_entries = [e for e in entries if month_start <= e.day <= month_end]
MonthSubset(entries, month_start, month_end) ==
    LET InMonth(e) == month_start <= e.day /\ e.day <= month_end
    IN  SelectSeq(entries, InMonth)

\* the week summaries computed on the month's own rows only
MonthWeekSummary_month_rows(entries, month_entries, current_monday) ==
    summarize_week(month_entries, current_monday)

\* week_summary = summarize_week(entries, current_monday)
MonthWeekSummary(entries, month_entries, current_monday) ==
    summarize_week(entries, current_monday)

\* pass j (from 0) of `while current_monday <= month_end`, looking at the
\* week of first_monday + 7 j
MonthWeeksBody(entries, month_entries, month_start, month_end, first_monday, j, weeks) ==
    LET current_monday == first_monday + 7 * j
        week_end == current_monday + 6
        week_entries == WeekSubset(month_entries, current_monday, week_end)
        week_summary == MonthWeekSummary(entries, month_entries,
                                         current_monday)
    IN  IF /\ \/ week_entries # <<>>
              \/ current_monday <= month_end /\ week_end >= month_start
           /\ week_summary.start <= month_end
           /\ week_summary.end >= month_start
        THEN Append(weeks, week_summary)
        ELSE weeks

summarize_month(entries, anchor) ==
    LET mb == month_bounds(anchor)
        month_start == mb[1]
        month_end == mb[2]
        month_entries == MonthSubset(entries, month_start, month_end)
        first_monday == month_start - weekday(month_start)
        Body(j, weeks) == MonthWeeksBody(entries, month_entries, month_start,
                                         month_end, first_monday, j, weeks)
        F(e) == IF OrZero(e.count) > 0 THEN 1 ELSE 0
        G(e) == OrZero(e.count)
        Sober(e) == e.count = Some(0)
    IN  [month_start |-> month_start,
         month_end |-> month_end,
         weeks |-> Loop(Body, 0, WeeklyPasses(first_monday, month_end) - 1,
                        <<>>),
         total_drinking_days |-> SumSeq(F, month_entries, 1),
         total_drinks |-> SumSeq(G, month_entries, 1),
         sober_days |-> Len(SelectSeq(month_entries, Sober)),
         total_days_recorded |-> Len(month_entries)]

\* sorted(entries, key=lambda e: e.day): a stable sort; the row at index i
\* comes after the rows of earlier days and the earlier rows of its own day
sorted_by_day(entries) ==
    LET n == Len(entries)
        Rank(i) == Cardinality({j \in 1..n :
                       \/ entries[j].day < entries[i].day
                       \/ entries[j].day = entries[i].day /\ j < i}) + 1
    IN  [k \in 1..n |-> entries[CHOOSE i \in 1..n : Rank(i) = k]]

\* entry and entry.count is not None and entry.count > n
CountAbove(entry, n) ==
    entry # None /\ entry[1].count # None /\ entry[1].count[1] > n

\* entry and entry.count == 0
CountIsZero(entry) == entry # None /\ entry[1].count = Some(0)

\* the lookback ended one day early
AbstinenceBody_short(entries, now, k, st) ==
    LET entry == find_entry(entries, now - k)
    IN  IF st.done THEN st
        ELSE IF CountAbove(entry, 0)
        THEN [done |-> TRUE, streak |-> st.streak]
        ELSE [done |-> (now - k) - 1 <= now - YearDays,
              streak |-> IF CountIsZero(entry)
                         THEN st.streak + 1 ELSE st.streak]

\* one pass of the `while True` loop of the current abstinence streak, the
\* k-th pass looking at check_date = today - k
AbstinenceBody(entries, now, k, st) ==
    LET entry == find_entry(entries, now - k)
    IN  IF st.done THEN st
        ELSE IF CountAbove(entry, 0)
        THEN [done |-> TRUE, streak |-> st.streak]
        ELSE [done |-> (now - k) - 1 < now - YearDays,
              streak |-> IF CountIsZero(entry)
                         THEN st.streak + 1 ELSE st.streak]

current_abstinence(entries, now) ==
    LET today_entry == find_entry(entries, now)
        Body(k, st) == AbstinenceBody(entries, now, k, st)
    IN  IF CountAbove(today_entry, 0) THEN 0
        \* the body ends the loop in pass YearDays, if not before
        ELSE Loop(Body, 1, YearDays + 1,
                  [done |-> FALSE, streak |-> 0]).streak

\* the scan without the reset on data gaps
LongestAbstinenceBody_no_gap_reset(sorted_entries, i, st) ==
    LET entry == sorted_entries[i]
        abstinent == entry.count = None \/ entry.count = Some(0)
        temp2 == IF abstinent THEN st.temp + 1 ELSE 0
    IN  [longest |-> IF abstinent /\ temp2 > st.longest
                     THEN temp2 ELSE st.longest,
         temp |-> temp2,
         last_date |-> Some(entry.day)]

\* one pass of `for entry in sorted_entries`; last_date is None or a date
LongestAbstinenceBody(sorted_entries, i, st) ==
    LET entry == sorted_entries[i]
        temp1 == IF st.last_date # None /\ entry.day - st.last_date[1] > 1
                 THEN 0 ELSE st.temp
        abstinent == entry.count = None \/ entry.count = Some(0)
        temp2 == IF abstinent THEN temp1 + 1 ELSE 0
    IN  [longest |-> IF abstinent /\ temp2 > st.longest
                     THEN temp2 ELSE st.longest,
         temp |-> temp2,
         last_date |-> Some(entry.day)]

longest_abstinence(sorted_entries) ==
    LET Body(i, st) == LongestAbstinenceBody(sorted_entries, i, st)
    IN  Loop(Body, 1, Len(sorted_entries),
             [longest |-> 0, temp |-> 0, last_date |-> None]).longest

\* week_summary["recorded_days"] > 0 and week_summary["rule_ok"]
WeekCompliant(week_summary) ==
    week_summary.recorded_days > 0 /\ week_summary.rule_ok

\* the backward count going on through weeks without a recorded day
ComplianceBody_counting_unrecorded(entries, last_completed_week_start, i, st) ==
    LET check_week_start == last_completed_week_start - 7 * i
        week_summary == summarize_week(entries, check_week_start)
    IN  IF st.done THEN st
        ELSE IF week_summary.rule_ok
        THEN [done |-> FALSE, streak |-> st.streak + 1]
        ELSE [done |-> TRUE, streak |-> st.streak]

\* one pass of `for i in range(104)` of the current compliance streak
ComplianceBody(entries, last_completed_week_start, i, st) ==
    LET check_week_start == last_completed_week_start - 7 * i
        week_summary == summarize_week(entries, check_week_start)
    IN  IF st.done THEN st
        ELSE IF WeekCompliant(week_summary)
        THEN [done |-> FALSE, streak |-> st.streak + 1]
        ELSE [done |-> TRUE, streak |-> st.streak]

\* the backward count started at the week in progress
current_compliance_weeks_from_this_week(entries, now) ==
    LET current_week_start == now - weekday(now)
        current_week_summary == summarize_week(entries, current_week_start)
        last_completed_week_start == now - weekday(now)
        Body(i, st) == ComplianceBody(entries, last_completed_week_start, i, st)
    IN  IF current_week_summary.recorded_days > 0
           /\ ~current_week_summary.rule_ok
        THEN 0
        ELSE Loop(Body, 0, ComplianceWeeks - 1,
                  [done |-> FALSE, streak |-> 0]).streak

current_compliance_weeks(entries, now) ==
    LET current_week_start == now - weekday(now)
        current_week_summary == summarize_week(entries, current_week_start)
        last_completed_week_start == now - (weekday(now) + 7)
        Body(i, st) == ComplianceBody(entries, last_completed_week_start, i, st)
    IN  IF current_week_summary.recorded_days > 0
           /\ ~current_week_summary.rule_ok
        THEN 0
        ELSE Loop(Body, 0, ComplianceWeeks - 1,
                  [done |-> FALSE, streak |-> 0]).streak

\* min(e.day for e in entries)
earliest_day(entries) == Min({entries[i].day : i \in 1..Len(entries)})

\* pass j (from 0) of `while week_start <= last_completed_week` of the
\* longest compliance streak, looking at the week first_week_start + 7 j
LongestComplianceBody(entries, first_week_start, j, st) ==
    LET week_summary == summarize_week(entries, first_week_start + 7 * j)
        temp2 == IF WeekCompliant(week_summary) THEN st.temp + 1 ELSE 0
    IN  [longest |-> IF temp2 > st.longest THEN temp2 ELSE st.longest,
         temp |-> temp2]

\* the forward scan run up to the week in progress
longest_compliance_weeks_with_this_week(entries, now) ==
    LET earliest_date == IF entries # <<>> THEN earliest_day(entries) ELSE now
        week_start == earliest_date - weekday(earliest_date)
        last_completed_week == now - weekday(now)
        Body(j, st) == LongestComplianceBody(entries, week_start, j, st)
    IN  Loop(Body, 0, WeeklyPasses(week_start, last_completed_week) - 1,
             [longest |-> 0, temp |-> 0]).longest

longest_compliance_weeks(entries, now) ==
    LET earliest_date == IF entries # <<>> THEN earliest_day(entries) ELSE now
        week_start == earliest_date - weekday(earliest_date)
        last_completed_week == now - (weekday(now) + 7)
        Body(j, st) == LongestComplianceBody(entries, week_start, j, st)
    IN  Loop(Body, 0, WeeklyPasses(week_start, last_completed_week) - 1,
             [longest |-> 0, temp |-> 0]).longest

\* pass i of `for i in range(365)`, looking at check_date = today - i;
\* found is None until the break
OverLimitBody(entries, now, i, found) ==
    IF found # None THEN found
    ELSE IF CountAbove(find_entry(entries, now - i), RuleLimit)
         THEN Some(i) ELSE None

\* the look-back taken one day further, range(366)
days_since_over_limit_366(entries, now) ==
    LET Body(i, found) == OverLimitBody(entries, now, i, found)
    IN  Loop(Body, 0, YearDays, None)

days_since_over_limit(entries, now) ==
    LET Body(i, found) == OverLimitBody(entries, now, i, found)
    IN  Loop(Body, 0, YearDays - 1, None)

\* the weekend judged by its Saturday alone
WeekendBody_saturday_only(entries, first_saturday, j, total) ==
    LET current_saturday == first_saturday + 7 * j
        saturday_entry == find_entry(entries, current_saturday)
    IN  IF CountIsZero(saturday_entry) THEN total + 1 ELSE total

\* pass j (from 0) of `while current_saturday <= today`, looking at the
\* Saturday first_saturday + 7 j
WeekendBody(entries, first_saturday, j, total) ==
    LET current_saturday == first_saturday + 7 * j
        saturday_entry == find_entry(entries, current_saturday)
        sunday_entry == find_entry(entries, current_saturday + 1)
    IN  IF CountIsZero(saturday_entry) /\ CountIsZero(sunday_entry)
        THEN total + 1 ELSE total

total_alcohol_free_weekends(entries, now) ==
    IF entries = <<>> THEN 0
    ELSE LET earliest_date == earliest_day(entries)
             saturday == earliest_date - weekday(earliest_date) + 5
             first_saturday == IF saturday < earliest_date
                               THEN saturday + 7 ELSE saturday
             Body(j, total) == WeekendBody(entries, first_saturday, j, total)
         IN  Loop(Body, 0, WeeklyPasses(first_saturday, now) - 1, 0)

\* pass j (from 0) of `while week_start <= last_completed_week` of the
\* perfect weeks, looking at the week first_week_start + 7 j
PerfectBody(entries, first_week_start, j, perfect) ==
    LET week_summary == summarize_week(entries, first_week_start + 7 * j)
    IN  IF /\ week_summary.recorded_days > 0
           /\ week_summary.drinking_days = 0
           /\ week_summary.rule_ok
        THEN perfect + 1 ELSE perfect

\* the week in progress taken for a completed one
perfect_weeks_with_this_week(entries, now) ==
    IF entries = <<>> THEN 0
    ELSE LET earliest_date == earliest_day(entries)
             week_start == earliest_date - weekday(earliest_date)
             last_completed_week == now - weekday(now)
             Body(j, perfect) == PerfectBody(entries, week_start, j, perfect)
         IN  Loop(Body, 0, WeeklyPasses(week_start, last_completed_week) - 1, 0)

perfect_weeks(entries, now) ==
    IF entries = <<>> THEN 0
    ELSE LET earliest_date == earliest_day(entries)
             week_start == earliest_date - weekday(earliest_date)
             last_completed_week == now - (weekday(now) + 7)
             Body(j, perfect) == PerfectBody(entries, week_start, j, perfect)
         IN  Loop(Body, 0, WeeklyPasses(week_start, last_completed_week) - 1, 0)

\* the empty history answered with offset 0 for the last violation
calculate_streaks_empty_since_today(entries, now) ==
    IF entries = <<>>
    THEN [current_abstinence |-> 0,
          longest_abstinence |-> 0,
          current_compliance_weeks |-> 0,
          longest_compliance_weeks |-> 0,
          days_since_over_limit |-> Some(0),
          total_alcohol_free_weekends |-> 0,
          perfect_weeks |-> 0]
    ELSE [current_abstinence |-> current_abstinence(entries, now),
          longest_abstinence |-> longest_abstinence(sorted_by_day(entries)),
          current_compliance_weeks |-> current_compliance_weeks(entries, now),
          longest_compliance_weeks |-> longest_compliance_weeks(entries, now),
          days_since_over_limit |-> days_since_over_limit(entries, now),
          total_alcohol_free_weekends |->
              total_alcohol_free_weekends(entries, now),
          perfect_weeks |-> perfect_weeks(entries, now)]

calculate_streaks(entries, now) ==
    IF entries = <<>>
    THEN [current_abstinence |-> 0,
          longest_abstinence |-> 0,
          current_compliance_weeks |-> 0,
          longest_compliance_weeks |-> 0,
          days_since_over_limit |-> None,
          total_alcohol_free_weekends |-> 0,
          perfect_weeks |-> 0]
    ELSE [current_abstinence |-> current_abstinence(entries, now),
          longest_abstinence |-> longest_abstinence(sorted_by_day(entries)),
          current_compliance_weeks |-> current_compliance_weeks(entries, now),
          longest_compliance_weeks |-> longest_compliance_weeks(entries, now),
          days_since_over_limit |-> days_since_over_limit(entries, now),
          total_alcohol_free_weekends |->
              total_alcohol_free_weekends(entries, now),
          perfect_weeks |-> perfect_weeks(entries, now)]

\* ------------------------------------------------------------------------
\* The file drinks.csv and load_entries
\*
\* `store` holds the rows of the file under the header, a row being its
\* three text fields.  A date field is the ordinal of the date it spells in
\* ISO format, or BadDate for a text date.fromisoformat rejects.  A count
\* field is None for the empty text, Some(n) for a text int() reads as n,
\* or BadCount for any other text.  A note field is its text.
\* ------------------------------------------------------------------------

\* no date has ordinal 0
BadDate == 0

BadCount == <<0, 0>>

\* str.strip() on the note texts of the model
strip(text) ==
    CASE text = " a" -> "a"
      [] text = "a " -> "a"
      [] text = " " -> ""
      [] OTHER -> text

\* `except Exception: continue`: the row is skipped
RowSkipped(row) == row.day = BadDate

\* int(count_str) raises ValueError, which nothing catches
RowRaises(row) == ~RowSkipped(row) /\ row.count = BadCount

\* load_entries raises on the first row whose date parses and whose count
\* does not
LoadRaises(file) == \E i \in 1..Len(file) : RowRaises(file[i])

\* the entries load_entries returns for the rows of the file, in file order
LoadRows(file) ==
    LET Kept(row) == ~RowSkipped(row)
        kept == SelectSeq(file, Kept)
    IN  [i \in 1..Len(kept) |->
            Entry(kept[i].day, kept[i].count, strip(kept[i].note))]

\* load_entries(): defined when it does not raise
load_entries == LoadRows(store)

\* the output of a command that ended in an uncaught exception
Crashed(cmd) == [cmd |-> "error", of |-> cmd, error |-> "ValueError"]

\* ------------------------------------------------------------------------
\* The week view: `butler week [--date D]`
\* ------------------------------------------------------------------------

\* cli.week: date_ is None (today) or a date
week(date_) ==
    LET anchor == IF date_ = None THEN today ELSE date_[1]
        entries == load_entries
        wk == summarize_week(entries, anchor)
    IN  /\ out' = IF LoadRaises(store) THEN Crashed("week")
                  ELSE [cmd |-> "week", anchor |-> anchor, wk |-> wk]
        /\ UNCHANGED <<store, today, scan, writers>>

\* ------------------------------------------------------------------------
\* Inputs of the week view: the day-unique, day-sorted stores with rows on
\* the Sunday before the week and the seven days of the week
\* ------------------------------------------------------------------------

WeekDays == (WeekMonday - 1)..(WeekMonday + 6)

\* counts the console's cycle 0,1,2,3,4 and a note-only row (None) leave
WeekCounts == {None, Some(0), Some(3), Some(4)}

RECURSIVE RowsOf(_, _)
\* the rows of the file that holds f[d] on day d, in ascending day order
RowsOf(f, days) ==
    IF days = {} THEN <<>>
    ELSE LET d == Min(days)
         IN  <<Entry(d, f[d], "")>> \o RowsOf(f, days \ {d})

Stores(days, counts, most) ==
    UNION {{RowsOf(f, S) : f \in [S -> counts]} :
              S \in {T \in SUBSET days : Cardinality(T) <= most}}

WeekAnchors == {Some(WeekMonday - 1), Some(WeekMonday + 6)}

InitWeek ==
    /\ store \in Stores(WeekDays, WeekCounts, MaxWeekEntries)
    /\ today = WeekMonday + 1
    /\ out = [cmd |-> "none"]
    /\ scan = ScanIdle
    /\ writers = NoWriters

NextWeek == \E date_ \in WeekAnchors \cup {None} : week(date_)

SpecWeek == InitWeek /\ [][NextWeek]_vars

\* ------------------------------------------------------------------------
\* The streak view: `butler streaks`
\* ------------------------------------------------------------------------

\* the streak view with the entries sorted in place and written back
streaks_saving_sorted ==
    LET entries == load_entries
        result == calculate_streaks(entries, today)
    IN  IF LoadRaises(store)
        THEN /\ out' = Crashed("streaks")
             /\ UNCHANGED <<store, today, scan, writers>>
        ELSE /\ out' = [cmd |-> "streaks", streaks |-> result]
             /\ store' = sorted_by_day(entries)
             /\ UNCHANGED <<today, scan, writers>>

\* cli.streaks
streaks ==
    LET entries == load_entries
        result == calculate_streaks(entries, today)
    IN  /\ out' = IF LoadRaises(store) THEN Crashed("streaks")
                  ELSE [cmd |-> "streaks", streaks |-> result]
        /\ UNCHANGED <<store, today, scan, writers>>

\* ------------------------------------------------------------------------
\* Inputs of the streak view.  Sparse stores: a few rows on days around
\* today and a year back.  Long histories: one row every Monday for
\* LongWeeks completed weeks, with one of them possibly over the limit or
\* left out, and possibly a row in the week in progress.
\* ------------------------------------------------------------------------

\* Wednesday 2026-11-04
StreakToday == WeekMonday + 2

\* the two days around the end of the year-long lookback, a day of the week
\* before last, last week's Sunday, and Monday to Wednesday of this week
StreakDays ==
    {StreakToday - (YearDays + 1), StreakToday - YearDays, StreakToday - 10}
        \cup (StreakToday - 3)..StreakToday

\* rows for the Mondays of the weeks n, n-1, .. 1 before the week of
\* Monday m; week `bad` holds `badCount` (a set: empty for no row at all),
\* every other week holds a 0
MondayRows(m, n, bad, badCount) ==
    LET all == [k \in 1..n |->
                   Entry(m - 7 * (n + 1 - k),
                         IF n + 1 - k = bad /\ badCount # {}
                         THEN CHOOSE c \in badCount : TRUE ELSE Some(0),
                         "")]
        Kept(e) == ~(badCount = {} /\ e.day = m - 7 * bad)
    IN  SelectSeq(all, Kept)

\* the weeks, counted back from the week in progress, that may be spoilt
BadWeeks == {0, 1, 2, ComplianceWeeks, ComplianceWeeks + 1}

LongStores ==
    {MondayRows(WeekMonday, LongWeeks, bad, badCount) \o cur :
        bad \in BadWeeks,
        badCount \in {{}, {Some(4)}},
        cur \in {<<>>, <<Entry(WeekMonday, Some(0), "")>>,
                 <<Entry(WeekMonday, Some(4), "")>>}}

InitStreaks ==
    /\ store \in Stores(StreakDays, WeekCounts, MaxStreakEntries)
                      \cup LongStores
    /\ today = StreakToday
    /\ out = [cmd |-> "none"]
    /\ scan = ScanIdle
    /\ writers = NoWriters

NextStreaks == streaks

SpecStreaks == InitStreaks /\ [][NextStreaks]_vars

\* ------------------------------------------------------------------------
\* What the week view must show, stated on the rows of the store
\* ------------------------------------------------------------------------

\* the Monday on or before the date: WeekMonday is a Monday
MondayOf(d) == CHOOSE m \in (d - 6)..d : (m + 7 * 1000 - WeekMonday) % 7 = 0

\* the indices of the rows dated in the week that starts on Monday m
RowsIn(m) == {i \in 1..Len(store) : m <= store[i].day /\ store[i].day <= m + 6}

\* some row of the store records a positive count for the day
Drank(d) ==
    \E i \in 1..Len(store) :
        store[i].day = d /\ store[i].count # None /\ store[i].count[1] > 0

RECURSIVE SumCounts(_)
\* the recorded counts of the rows with these indices, added up
SumCounts(I) ==
    IF I = {} THEN 0
    ELSE LET i == CHOOSE j \in I : TRUE
         IN  (IF store[i].count = None THEN 0 ELSE store[i].count[1])
                 + SumCounts(I \ {i})

WeekShown == out.cmd = "week"

\* C1: rule_gap_ok is false exactly when two calendar-adjacent days d, d+1
\* both have a positive count and d+1 lies in the anchor's week (d runs from
\* the Sunday before the week to the week's Saturday).
C1_GapRule ==
    WeekShown =>
        LET m == MondayOf(out.anchor)
        IN  out.wk.rule_gap_ok
                = ~(\E d \in (m - 1)..(m + 5) : Drank(d) /\ Drank(d + 1))

\* a drinking Sunday followed by a drinking Monday, nothing else adjacent,
\* shown for the Monday's week
C1_Witness ==
    /\ WeekShown
    /\ MondayOf(out.anchor) = WeekMonday
    /\ Drank(WeekMonday - 1) /\ Drank(WeekMonday)
    /\ \A d \in WeekMonday..(WeekMonday + 5) : ~(Drank(d) /\ Drank(d + 1))
    /\ ~out.wk.rule_gap_ok

\* C2: rule_days_ok holds iff drinking_days <= 3, and rule_ok is exactly the
\* conjunction of the three verdicts.
C2_RuleOk ==
    WeekShown =>
        /\ out.wk.rule_days_ok = (out.wk.drinking_days <= 3)
        /\ out.wk.rule_ok = (/\ out.wk.rule_days_ok
                             /\ out.wk.rule_per_day_ok
                             /\ out.wk.rule_gap_ok)

\* only the gap rule fails, and the week is not compliant
C2_Witness ==
    /\ WeekShown
    /\ out.wk.rule_days_ok /\ out.wk.rule_per_day_ok /\ ~out.wk.rule_gap_ok
    /\ ~out.wk.rule_ok

\* C3: rule_per_day_ok is true iff every row dated in the anchor's week has
\* an absent count or a count <= 3; rows outside the week do not matter.
C3_PerDayLimit ==
    WeekShown =>
        out.wk.rule_per_day_ok
            = (\A i \in RowsIn(MondayOf(out.anchor)) :
                   store[i].count = None \/ store[i].count[1] <= 3)

\* a single 4 in the week, next to a 3, an absent count and a 0
C3_Witness ==
    /\ WeekShown
    /\ LET I == RowsIn(MondayOf(out.anchor))
       IN  /\ Cardinality({i \in I : store[i].count = Some(4)}) = 1
           /\ \E i \in I : store[i].count = Some(3)
           /\ \E i \in I : store[i].count = None
           /\ \E i \in I : store[i].count = Some(0)
    /\ ~out.wk.rule_per_day_ok

\* C4: an in-week row with absent count adds nothing to any counter; one
\* with count 0 adds 1 to recorded_days and abstinent_days only; one with
\* count n > 0 adds 1 to recorded_days and drinking_days and n to
\* total_drinks.
C4_AbsentVsZero ==
    WeekShown =>
        LET I == RowsIn(MondayOf(out.anchor))
            Absent == {i \in I : store[i].count = None}
            Zero == {i \in I \ Absent : store[i].count[1] = 0}
            Pos == {i \in I \ Absent : store[i].count[1] > 0}
        IN  /\ out.wk.recorded_days = Cardinality(Zero) + Cardinality(Pos)
            /\ out.wk.abstinent_days = Cardinality(Zero)
            /\ out.wk.drinking_days = Cardinality(Pos)
            /\ out.wk.total_drinks = SumCounts(Pos)

\* a week with an absent row, a zero row and a drinking row
C4_Witness ==
    /\ WeekShown
    /\ LET I == RowsIn(MondayOf(out.anchor))
       IN  /\ \E i \in I : store[i].count = None
           /\ \E i \in I : store[i].count = Some(0)
           /\ \E i \in I : store[i].count = Some(4)
    /\ out.wk.recorded_days = 2 /\ out.wk.abstinent_days = 1
    /\ out.wk.drinking_days = 1 /\ out.wk.total_drinks = 4

\* C5: week_bounds(d) is (monday, sunday) with monday a Monday,
\* sunday = monday + 6 and monday <= d <= sunday; the seven days of the
\* week map to the same pair and the neighbouring days to other weeks.
C5_WeekBounds ==
    WeekShown =>
        LET monday == out.wk.start
            sunday == out.wk.end
        IN  /\ (monday + 7 * 1000 - WeekMonday) % 7 = 0
            /\ sunday = monday + 6
            /\ monday <= out.anchor /\ out.anchor <= sunday
            /\ \A d \in monday..sunday : week_bounds(d) = <<monday, sunday>>
            /\ week_bounds(monday - 1) = <<monday - 7, monday - 1>>
            /\ week_bounds(sunday + 1) = <<sunday + 1, sunday + 7>>

\* a Sunday anchor, whose Monday is six days earlier
C5_Witness ==
    /\ WeekShown
    /\ out.anchor = WeekMonday + 6
    /\ out.wk.start = WeekMonday /\ out.wk.end = out.anchor

\* ------------------------------------------------------------------------
\* What the streak view must show, stated on the rows of the store
\* ------------------------------------------------------------------------

StreaksShown == out.cmd = "streaks"

\* the row of the day, if any, records a positive count
RowPositive(i) == store[i].count # None /\ store[i].count[1] > 0

\* the row records an absent count or a 0
RowNotPositive(i) == store[i].count = None \/ store[i].count[1] = 0

\* the days that have a row
RowDays == {store[i].day : i \in 1..Len(store)}

\* the week that starts on Monday m has a recorded day and is rule_ok
GoodWeek(m) ==
    LET wk == summarize_week(store, m)
    IN  wk.recorded_days > 0 /\ wk.rule_ok

\* C6: longest_abstinence >= current_abstinence.
C6_LongestDominatesCurrent ==
    StreaksShown =>
        out.streaks.longest_abstinence >= out.streaks.current_abstinence

\* C7: current_abstinence is 0 when today's row has a positive count;
\* otherwise it is the number of rows with count 0 dated after the latest
\* drinking day before today, within the 365 days before today; days
\* without row or with absent count neither end nor extend the streak.
C7_CurrentAbstinence ==
    StreaksShown =>
        LET Window == {i \in 1..Len(store) :
                          /\ today - 365 <= store[i].day
                          /\ store[i].day <= today - 1}
            DrinkDays == {store[i].day : i \in {j \in Window : RowPositive(j)}}
            stop == IF DrinkDays = {} THEN today - 366 ELSE Max(DrinkDays)
            drinkingToday ==
                \E i \in 1..Len(store) : store[i].day = today /\ RowPositive(i)
        IN  out.streaks.current_abstinence
                = IF drinkingToday THEN 0
                  ELSE Cardinality({i \in Window :
                                       /\ store[i].day > stop
                                       /\ store[i].count = Some(0)})

\* zeros yesterday, 365 and 366 days ago and nothing between: the streak
\* skips the gap, counts the first two and not the third
C7_Witness ==
    /\ StreaksShown
    /\ RowDays = {today - 1, today - 365, today - 366}
    /\ \A i \in 1..Len(store) : store[i].count = Some(0)
    /\ out.streaks.current_abstinence = 2

\* C8: current_compliance_weeks is 0 when the week in progress has a
\* recorded day and is not rule_ok; otherwise it is the number of
\* consecutive good weeks counted back from the week before the one in
\* progress, at most 104; the week in progress is never counted.
C8_CurrentCompliance ==
    StreaksShown =>
        LET thisMonday == MondayOf(today)
            thisWeek == summarize_week(store, thisMonday)
            Stops == {k \in 1..105 : k = 105 \/ ~GoodWeek(thisMonday - 7 * k)}
        IN  out.streaks.current_compliance_weeks
                = IF thisWeek.recorded_days > 0 /\ ~thisWeek.rule_ok THEN 0
                  ELSE Min(Stops) - 1

\* more than 104 good weeks in a row before a good week in progress: the
\* count stops at 104
C8_Witness ==
    /\ StreaksShown
    /\ \A k \in 0..105 : GoodWeek(MondayOf(today) - 7 * k)
    /\ out.streaks.current_compliance_weeks = 104

\* C9: longest_compliance_weeks is the length of the longest run of
\* consecutive good weeks among the weeks from the week of the earliest row
\* to the week before the one in progress.
C9_LongestCompliance ==
    StreaksShown =>
        LET first == IF store = <<>> THEN MondayOf(today)
                     ELSE MondayOf(Min(RowDays))
            last == MondayOf(today) - 7
            n == IF last < first THEN 0 ELSE (last - first) \div 7 + 1
            Breaks == {k \in 0..(n + 1) :
                          k = 0 \/ k = n + 1 \/ ~GoodWeek(first + 7 * (k - 1))}
            Runs == {b2 - b1 - 1 : <<b1, b2>> \in
                        {p \in Breaks \X Breaks :
                            /\ p[1] < p[2]
                            /\ \A b \in Breaks : ~(p[1] < b /\ b < p[2])}}
        IN  out.streaks.longest_compliance_weeks = Max(Runs)

\* a spoilt week two weeks ago: a long run before it, a short one after it,
\* and a good week in progress that is not counted
C9_Witness ==
    /\ StreaksShown
    /\ GoodWeek(MondayOf(today))
    /\ GoodWeek(MondayOf(today) - 7)
    /\ ~GoodWeek(MondayOf(today) - 14)
    /\ out.streaks.current_compliance_weeks = 1
    /\ out.streaks.longest_compliance_weeks > 100

\* C10: longest_abstinence is the greatest number of rows on
\* calendar-consecutive days none of which has a positive count.
C10_LongestAbstinence ==
    StreaksShown =>
        LET Quiet == {store[i].day : i \in {j \in 1..Len(store) :
                                              RowNotPositive(j)}}
            Runs == {p \in Quiet \X Quiet :
                        p[1] <= p[2] /\ \A d \in p[1]..p[2] : d \in Quiet}
        IN  out.streaks.longest_abstinence
                = Max({0} \cup {p[2] - p[1] + 1 : p \in Runs})

\* an absent count and a 0 on consecutive days, then a drinking day
C10_Witness ==
    /\ StreaksShown
    /\ Len(store) = 3
    /\ \E i \in 1..Len(store) :
           store[i].day = today - 3 /\ store[i].count = None
    /\ \E i \in 1..Len(store) :
           store[i].day = today - 2 /\ store[i].count = Some(0)
    /\ \E i \in 1..Len(store) : store[i].day = today - 1 /\ RowPositive(i)
    /\ out.streaks.longest_abstinence = 2

\* C27: for every record collection and every today, calculate_streaks
\* returns longest_compliance_weeks >= current_compliance_weeks: the weeks
\* of the current streak are a run of completed weeks that the forward
\* scan from the earliest record also covers.
C27_LongestCoversCurrent ==
    StreaksShown =>
        out.streaks.longest_compliance_weeks
            >= out.streaks.current_compliance_weeks

\* the current streak stopped at its limit of 104 weeks and the forward
\* scan counted past it
C27_Witness ==
    /\ StreaksShown
    /\ out.streaks.current_compliance_weeks = ComplianceWeeks
    /\ out.streaks.longest_compliance_weeks > ComplianceWeeks

\* ------------------------------------------------------------------------
\* cli.streaks on files with weekends, a whole week of records and records
\* a year back, read on two days a week apart
\* ------------------------------------------------------------------------

\* a Wednesday and the Wednesday after it
AchieveTodays == {StreakToday, StreakToday + 7}

\* a year back (offsets 365 and 364 of the first today), the weekend before
\* the first today, that today, and the weekend after it
AchieveDays ==
    {StreakToday - 365, StreakToday - 364, StreakToday - 4, StreakToday - 3,
     StreakToday, StreakToday + 3, StreakToday + 4}

\* a row for each day of the week of Monday m, all 0 but day m + k
ZeroWeek(m, k, count) ==
    [i \in 1..7 |-> Entry(m + i - 1, IF i - 1 = k THEN count ELSE Some(0), "")]

WholeWeekStores ==
    {ZeroWeek(WeekMonday, k, count) : k \in {0, 6}, count \in WeekCounts}

InitAchieve ==
    /\ store \in Stores(AchieveDays, WeekCounts, MaxAchieveEntries)
                    \cup WholeWeekStores
    /\ today \in AchieveTodays
    /\ out = [cmd |-> "none"]
    /\ scan = ScanIdle
    /\ writers = NoWriters

NextAchieve == streaks

SpecAchieve == InitAchieve /\ [][NextAchieve]_vars

\* the earliest day that has a row
EarliestRowDay == CHOOSE d \in RowDays : \A e \in RowDays : d <= e

\* the Mondays of the completed weeks, from the week of the earliest row:
\* the weeks whose Sunday is before the Monday of today's week
CompletedWeeks ==
    IF store = <<>> THEN {}
    ELSE {m \in MondayOf(EarliestRowDay)..(MondayOf(today) - 7) :
              MondayOf(m) = m}

\* the week of Monday m has a recorded day, no drinking day and is rule_ok
PerfectWeek(m) ==
    /\ \E i \in RowsIn(m) : store[i].count # None
    /\ \A i \in RowsIn(m) : RowNotPositive(i)
    /\ summarize_week(store, m).rule_ok

\* every day of the week of Monday m has a row with count 0
AllZeroWeek(m) ==
    \A d \in m..(m + 6) :
        \E i \in 1..Len(store) : store[i].day = d /\ store[i].count = Some(0)

\* C11: perfect_weeks is the number of completed weeks, from the week of
\* the earliest record, that have a recorded day, no drinking day and
\* rule_ok; a week with all 7 days recorded as 0 adds 1 once completed and
\* nothing while it is the week in progress.
C11_PerfectWeeks ==
    StreaksShown =>
        /\ out.streaks.perfect_weeks
               = Cardinality({m \in CompletedWeeks : PerfectWeek(m)})
        /\ AllZeroWeek(MondayOf(today)) /\ Len(store) = 7
               => out.streaks.perfect_weeks = 0
        /\ AllZeroWeek(MondayOf(today) - 7) /\ Len(store) = 7
               => out.streaks.perfect_weeks = 1

\* the all-0 week of 2 November is completed and counts as one perfect week
C11_Witness ==
    /\ StreaksShown
    /\ today = StreakToday + 7
    /\ AllZeroWeek(WeekMonday)
    /\ out.streaks.perfect_weeks = 1

\* some row records an explicit 0 for the day
ZeroRow(d) ==
    \E i \in 1..Len(store) : store[i].day = d /\ store[i].count = Some(0)

\* the Saturdays that, with their Sunday, have a row with count 0
FreeWeekends == {d \in RowDays : weekday(d) = 5 /\ ZeroRow(d) /\ ZeroRow(d + 1)}

\* C12 as stated: total_alcohol_free_weekends is the number of Saturdays of
\* the records for which the Saturday and the following Sunday both have a
\* row with explicit count 0.
C12_AllRecordedWeekends ==
    StreaksShown =>
        out.streaks.total_alcohol_free_weekends = Cardinality(FreeWeekends)

\* C12: total_alcohol_free_weekends is the number of Saturdays on or before
\* today for which the Saturday and the following Sunday both have a row
\* with explicit count 0; a weekend with a day without row, with an absent
\* count or with a positive count is never counted.
C12_FreeWeekends ==
    StreaksShown =>
        out.streaks.total_alcohol_free_weekends
            = Cardinality({d \in FreeWeekends : d <= today})

\* the weekend of 31 October, on or before today, has both days recorded 0
\* and is counted
C12_Witness ==
    /\ StreaksShown
    /\ ZeroRow(StreakToday - 4)
    /\ ZeroRow(StreakToday - 3)
    /\ out.streaks.total_alcohol_free_weekends = 1

\* the offsets in 0..364 of the days before today with a count above 3
OverLimitOffsets ==
    {i \in 0..(YearDays - 1) :
        \E j \in 1..Len(store) :
            /\ store[j].day = today - i
            /\ store[j].count # None
            /\ store[j].count[1] > RuleLimit}

\* C13: days_since_over_limit is the smallest offset i in 0..364 for which
\* the day today - i has a count above 3, and is absent when there is none,
\* also when the only such days are 365 or more days back.
C13_DaysSinceOverLimit ==
    StreaksShown =>
        out.streaks.days_since_over_limit
            = IF OverLimitOffsets = {} THEN None
              ELSE Some(CHOOSE i \in OverLimitOffsets :
                            \A k \in OverLimitOffsets : i <= k)

\* the only day above 3 lies 365 days back and the answer is absent
C13_Witness ==
    /\ StreaksShown
    /\ \E j \in 1..Len(store) :
           store[j].day = today - YearDays /\ store[j].count = Some(4)
    /\ out.streaks.days_since_over_limit = None

\* ------------------------------------------------------------------------
\* cli.month
\* ------------------------------------------------------------------------

\* cli.month: date_ is None (today) or a date
month(date_) ==
    LET anchor == IF date_ = None THEN today ELSE date_[1]
        entries == load_entries
        month_data == summarize_month(entries, anchor)
    IN  /\ out' = IF LoadRaises(store) THEN Crashed("month")
                  ELSE [cmd |-> "month", anchor |-> anchor,
                        month |-> month_data]
        /\ UNCHANGED <<store, today, scan, writers>>

\* the ends of May, October and November 2026 with the days next to them:
\* Sunday 31 May and Monday 1 June, Saturday 31 October, Sunday 1 and
\* Monday 2 November, Monday 30 November and Tuesday 1 December
MonthDays ==
    {ToOrdinal(2026, 5, 31), ToOrdinal(2026, 6, 1), ToOrdinal(2026, 10, 31),
     ToOrdinal(2026, 11, 1), ToOrdinal(2026, 11, 2), ToOrdinal(2026, 11, 30),
     ToOrdinal(2026, 12, 1)}

\* months of four weeks (February 2027), five and six weeks (November
\* 2026), a December and a leap February
MonthAnchors ==
    {Some(ToOrdinal(2026, 5, 31)), Some(ToOrdinal(2026, 6, 10)),
     Some(ToOrdinal(2026, 10, 31)), Some(ToOrdinal(2026, 11, 1)),
     Some(ToOrdinal(2026, 12, 15)), Some(ToOrdinal(2027, 2, 1)),
     Some(ToOrdinal(2024, 2, 29))}

InitMonth ==
    /\ store \in Stores(MonthDays, WeekCounts, MaxMonthEntries)
    /\ today = StreakToday
    /\ out = [cmd |-> "none"]
    /\ scan = ScanIdle
    /\ writers = NoWriters

NextMonth == \E date_ \in MonthAnchors \cup {None} : month(date_)

SpecMonth == InitMonth /\ [][NextMonth]_vars

\* cli.month without --date, run on any day of 2024 to 2027
CalendarDays == ToOrdinal(2024, 1, 1)..ToOrdinal(2027, 12, 31)

InitCalendar ==
    /\ store \in Stores({StreakToday}, WeekCounts, 1)
    /\ today \in CalendarDays
    /\ out = [cmd |-> "none"]
    /\ scan = ScanIdle
    /\ writers = NoWriters

NextCalendar == month(None)

SpecCalendar == InitCalendar /\ [][NextCalendar]_vars

MonthShown == out.cmd = "month"

\* C14: the weeks of summarize_month are exactly the Monday-Sunday weeks
\* that intersect the month, ascending, none repeated or skipped, at most
\* 6, each equal to summarize_week on all records for that week (so its
\* rule_gap_ok sees a drinking Sunday of the previous month).
C14_MonthWeeks ==
    MonthShown =>
        LET weeks == out.month.weeks
            first == out.month.month_start
            last == out.month.month_end
        IN  /\ Len(weeks) >= 1 /\ Len(weeks) <= 6
            /\ weeks[1].start = MondayOf(first)
            /\ weeks[Len(weeks)].start = MondayOf(last)
            /\ \A i \in 1..(Len(weeks) - 1) :
                   weeks[i + 1].start = weeks[i].start + 7
            /\ \A i \in 1..Len(weeks) :
                   /\ weeks[i].end = weeks[i].start + 6
                   /\ weeks[i].start <= last /\ weeks[i].end >= first
                   /\ weeks[i] = summarize_week(store, weeks[i].start)
                   /\ weeks[i].rule_gap_ok
                          = ~\E d \in (weeks[i].start - 1)..(weeks[i].end - 1) :
                                Drank(d) /\ Drank(d + 1)

\* June 2026: Sunday 31 May and Monday 1 June are drinking days and the
\* month's first week fails the gap rule
C14_Witness ==
    /\ MonthShown
    /\ out.anchor = ToOrdinal(2026, 6, 10)
    /\ Drank(ToOrdinal(2026, 5, 31))
    /\ Drank(ToOrdinal(2026, 6, 1))
    /\ out.month.weeks[1].start = ToOrdinal(2026, 6, 1)
    /\ ~out.month.weeks[1].rule_gap_ok

\* the indices of the rows dated in the month shown
RowsInMonth ==
    {i \in 1..Len(store) :
        out.month.month_start <= store[i].day
            /\ store[i].day <= out.month.month_end}

\* C15: total_drinking_days, total_drinks and sober_days come from the
\* records with month_start <= day <= month_end only: records with count
\* > 0, the sum of the counts, records with explicit 0.  A record in the
\* month's first or last week but outside the month counts in the week
\* summary and not in the totals.
C15_MonthTotals ==
    MonthShown =>
        /\ out.month.total_drinking_days
               = Cardinality({i \in RowsInMonth : RowPositive(i)})
        /\ out.month.total_drinks = SumCounts(RowsInMonth)
        /\ out.month.sober_days
               = Cardinality({i \in RowsInMonth : store[i].count = Some(0)})

\* November 2026: 3 drinks on Saturday 31 October and 3 on Sunday 1
\* November give the first week 6 drinks and the month 3
C15_Witness ==
    /\ MonthShown
    /\ out.anchor = ToOrdinal(2026, 11, 1)
    /\ store = <<Entry(ToOrdinal(2026, 10, 31), Some(3), ""),
                 Entry(ToOrdinal(2026, 11, 1), Some(3), "")>>
    /\ out.month.weeks[1].total_drinks = 6
    /\ out.month.total_drinks = 3
    /\ out.month.total_drinking_days = 1

to_row(e) == [day |-> e.day, count |-> e.count, note |-> e.note]

\* note or ""
NoteOrEmpty(note) == IF note = None THEN "" ELSE note[1]

\* the stored count and note overwritten also by an absent argument
UpdatedEntry_overwriting(entry, count, note) ==
    Entry(entry.day, count, NoteOrEmpty(note))

\* if count is not None: entry.count = count; if note is not None:
\* entry.note = note
UpdatedEntry(entry, count, note) ==
    Entry(entry.day,
          IF count # None THEN count ELSE entry.count,
          IF note # None THEN note[1] ELSE entry.note)

\* the first entry of the day updated, or a new entry appended
Upserted_list(entries, target_day, count, note) ==
    LET hits == {i \in 1..Len(entries) : entries[i].day = target_day}
    IN  IF hits = {}
        THEN Append(entries, Entry(target_day, count, NoteOrEmpty(note)))
        ELSE LET idx == Min(hits)
             IN  [entries EXCEPT ![idx] = UpdatedEntry(entries[idx], count, note)]

\* the entries left as they are after the update, without entries.sort
UpsertEntries_unsorted(entries, target_day, count, note) ==
    Upserted_list(entries, target_day, count, note)

\* the entries upsert_entry writes back: the first entry of the day
\* updated, or a new entry appended, then entries.sort(key=day)
UpsertEntries(entries, target_day, count, note) ==
    sorted_by_day(Upserted_list(entries, target_day, count, note))

\* upsert_entry(target_day, count, note): count is None or Some(n), note is
\* None or Some(text); the file is rewritten from the loaded entries
upsert_entry(target_day, count, note) ==
    LET entries == UpsertEntries(load_entries, target_day, count, note)
        entry == find_entry(entries, target_day)[1]
    IN  IF LoadRaises(store)
        THEN /\ out' = Crashed("upsert_entry")
             /\ UNCHANGED <<store, today, scan, writers>>
        ELSE /\ store' = [i \in 1..Len(entries) |-> to_row(entries[i])]
             /\ out' = [cmd |-> "upsert_entry", entry |-> entry,
                        target_day |-> target_day, count |-> count,
                        note |-> note]
             /\ UNCHANGED <<today, scan, writers>>

\* every file of at most `most` rows taken from the set of rows
RECURSIVE Files(_, _)
Files(rows, most) ==
    IF most = 0 THEN {<<>>}
    ELSE LET shorter == Files(rows, most - 1)
         IN  shorter \cup {Append(f, r) : f \in shorter, r \in rows}

\* no two rows of the file spell the same date
DayUnique(file) ==
    \A i, j \in 1..Len(file) :
        i # j /\ file[i].day # BadDate => file[i].day # file[j].day

\* yesterday and today, and a date text that does not parse
UpsertDays == {StreakToday - 1, StreakToday}

\* rows as an editor can leave them: in any order, with a date or a count
\* that does not parse, with a note to strip
UpsertRows ==
    {Entry(d, count, "") :
        d \in UpsertDays \cup {BadDate}, count \in {None, Some(0), Some(2)}}
    \cup {Entry(StreakToday, BadCount, ""), Entry(StreakToday - 1, None, " a")}

\* an absent count, a count below 0, and counts from 0
UpsertCounts == {None, Some(0 - 1), Some(0), Some(2)}

UpsertNotes == {None, Some(""), Some(" a")}

InitUpsert ==
    /\ store \in {f \in Files(UpsertRows, MaxUpsertRows) : DayUnique(f)}
    /\ today = StreakToday
    /\ out = [cmd |-> "none"]
    /\ scan = ScanIdle
    /\ writers = NoWriters

NextUpsert ==
    \E target_day \in UpsertDays, count \in UpsertCounts,
       note \in UpsertNotes :
        upsert_entry(target_day, count, note)

SpecUpsert == InitUpsert /\ [][NextUpsert]_vars

Upserted == out.cmd = "upsert_entry"

\* C17: from a store with at most one record per day, after upsert_entry
\* has written the file it holds at most one row per day and its rows are
\* in strictly ascending day order.
C17_UniqueAscending ==
    Upserted =>
        \A i, j \in 1..Len(store) : i < j => store[i].day < store[j].day

\* two days are stored after an upsert, the upserted one among them
C17_Witness ==
    /\ Upserted
    /\ Len(store) = 2
    /\ store[1].day = StreakToday - 1
    /\ store[2].day = StreakToday
    /\ out.entry.day = StreakToday - 1

\* C18: upsert_entry does not store a negative count, so that after
\* upserts every stored count is absent or a non-negative integer.
C18_NoNegativeCount ==
    Upserted =>
        \A i \in 1..Len(store) :
            store[i].count = None \/ store[i].count[1] >= 0

\* ------------------------------------------------------------------------
\* load_entries on files with rows that do not parse
\* ------------------------------------------------------------------------

\* a call of load_entries(): its return value, or the exception it raises
LoadEntries ==
    /\ out' = IF LoadRaises(store) THEN Crashed("load_entries")
              ELSE [cmd |-> "load_entries", entries |-> load_entries]
    /\ UNCHANGED <<store, today, scan, writers>>

\* rows with a date or a count that does not parse among rows that do
LoadRowSet ==
    {Entry(d, count, "") :
        d \in UpsertDays \cup {BadDate}, count \in {None, Some(2), BadCount}}
    \cup {Entry(StreakToday, Some(0), " a")}

InitLoad ==
    /\ store \in Files(LoadRowSet, MaxLoadRows)
    /\ today = StreakToday
    /\ out = [cmd |-> "none"]
    /\ scan = ScanIdle
    /\ writers = NoWriters

NextLoad == LoadEntries

SpecLoad == InitLoad /\ [][NextLoad]_vars

\* the row has a date and a count that parse
WellFormed(row) == row.day # BadDate /\ row.count # BadCount

\* C19: load_entries never aborts on a corrupt row: a row with a field that
\* does not parse is skipped and every well-formed row before and after it
\* is returned, in file order.
C19_LoadSkipsCorruptRows ==
    out.cmd # "none" =>
        /\ out.cmd = "load_entries"
        /\ LET rows == SelectSeq(store, WellFormed)
           IN  /\ Len(out.entries) = Len(rows)
               /\ \A i \in 1..Len(rows) :
                      /\ out.entries[i].day = rows[i].day
                      /\ out.entries[i].count = rows[i].count

\* ------------------------------------------------------------------------
\* The views and upsert_entry on one store
\* ------------------------------------------------------------------------

\* well-formed rows in any order, a day possibly twice
FrameRows ==
    {Entry(d, count, "") : d \in UpsertDays, count \in {None, Some(0), Some(4)}}

InitFrame ==
    /\ store \in Files(FrameRows, MaxFrameRows)
    /\ today = StreakToday
    /\ out = [cmd |-> "none"]
    /\ scan = ScanIdle
    /\ writers = NoWriters

NextFrame ==
    \/ \E target_day \in UpsertDays, count \in {Some(0), Some(4)} :
           upsert_entry(target_day, count, None)
    \/ \E date_ \in {None, Some(StreakToday - 7)} : week(date_)
    \/ month(None)
    \/ streaks

SpecFrame == InitFrame /\ [][NextFrame]_vars

Views == {"week", "month", "streaks"}

\* the two outputs come from the same view called with the same anchor
SameCall(a, b) ==
    /\ a.cmd \in Views
    /\ a.cmd = b.cmd
    /\ a.cmd \in {"week", "month"} => a.anchor = b.anchor

EmptyFiles == Files({Entry(BadDate, Some(4), ""), Entry(BadDate, None, "")}, 2)

\* every day of 2026
EmptyTodays == ToOrdinal(2026, 1, 1)..ToOrdinal(2026, 12, 31)

InitEmpty ==
    /\ store \in EmptyFiles
    /\ today \in EmptyTodays
    /\ out = [cmd |-> "none"]
    /\ scan = ScanIdle
    /\ writers = NoWriters

NextEmpty == week(None) \/ month(None) \/ streaks

SpecEmpty == InitEmpty /\ [][NextEmpty]_vars

\* C21: on an empty record collection no view fails: calculate_streaks
\* returns 0 for the six counters and absent for days_since_over_limit;
\* summarize_week returns four zero counters with the three verdicts and
\* rule_ok true; summarize_month returns zero totals.
C21_EmptyCollection ==
    LoadRows(store) = <<>> =>
        /\ out.cmd # "error"
        /\ StreaksShown =>
               out.streaks = [current_abstinence |-> 0,
                              longest_abstinence |-> 0,
                              current_compliance_weeks |-> 0,
                              longest_compliance_weeks |-> 0,
                              days_since_over_limit |-> None,
                              total_alcohol_free_weekends |-> 0,
                              perfect_weeks |-> 0]
        /\ WeekShown =>
               /\ out.wk.drinking_days = 0 /\ out.wk.total_drinks = 0
               /\ out.wk.recorded_days = 0 /\ out.wk.abstinent_days = 0
               /\ out.wk.rule_days_ok /\ out.wk.rule_per_day_ok
               /\ out.wk.rule_gap_ok /\ out.wk.rule_ok
        /\ MonthShown =>
               /\ out.month.total_drinking_days = 0
               /\ out.month.total_drinks = 0
               /\ out.month.sober_days = 0
               /\ out.month.total_days_recorded = 0
               /\ \A i \in 1..Len(out.month.weeks) :
                      out.month.weeks[i].recorded_days = 0

\* the streak view has answered on the header-only file
C21_Witness ==
    /\ StreaksShown
    /\ store = <<>>
    /\ out.streaks.days_since_over_limit = None
    /\ out.streaks.perfect_weeks = 0

\* ------------------------------------------------------------------------
\* calculate_streaks pass by pass: `scan` is the position of the call in
\* its seven loops, each step one pass of a loop or the exit from a loop
\* ------------------------------------------------------------------------

\* the loops in the order of the code
ScanPhases ==
    <<"current_abstinence", "longest_abstinence", "current_compliance",
      "longest_compliance", "days_since_over_limit", "weekends",
      "perfect_weeks">>

\* the loops that step a date forward by a week
WeeklyPhases == {"longest_compliance", "weekends", "perfect_weeks"}

\* earliest_date - timedelta(days=earliest_date.weekday())
first_week_start(entries) ==
    LET earliest_date == earliest_day(entries)
    IN  earliest_date - weekday(earliest_date)

\* the first Saturday on or after the earliest record
first_saturday(entries) ==
    LET earliest_date == earliest_day(entries)
        saturday == earliest_date - weekday(earliest_date) + 5
    IN  IF saturday < earliest_date THEN saturday + 7 ELSE saturday

\* today - timedelta(days=today.weekday() + 7)
last_completed_week(now) == now - (weekday(now) + 7)

\* the loop variable before the first pass: days back, an index, or a date
ScanFirst(p, entries, now) ==
    CASE p = "current_abstinence" -> 1
      [] p = "longest_abstinence" -> 1
      [] p = "current_compliance" -> 0
      [] p = "longest_compliance" -> first_week_start(entries)
      [] p = "days_since_over_limit" -> 0
      [] p = "weekends" -> first_saturday(entries)
      [] p = "perfect_weeks" -> first_week_start(entries)

\* the loop's variables before the first pass; a loop behind an `if` that
\* skips it starts as done
ScanVars(p, entries, now) ==
    CASE p = "current_abstinence" ->
             [done |-> CountAbove(find_entry(entries, now), 0), streak |-> 0]
      [] p = "longest_abstinence" ->
             [longest |-> 0, temp |-> 0, last_date |-> None]
      [] p = "current_compliance" ->
             LET current_week_summary ==
                     summarize_week(entries, now - weekday(now))
             IN  [done |-> /\ current_week_summary.recorded_days > 0
                           /\ ~current_week_summary.rule_ok,
                  streak |-> 0]
      [] p = "longest_compliance" -> [longest |-> 0, temp |-> 0]
      [] p = "days_since_over_limit" -> None
      [] p = "weekends" -> 0
      [] p = "perfect_weeks" -> 0

\* the loop goes into another pass
ScanGuard(p, entries, now, at, st) ==
    CASE p = "current_abstinence" -> ~st.done
      [] p = "longest_abstinence" -> at <= Len(entries)
      [] p = "current_compliance" -> ~st.done /\ at < ComplianceWeeks
      [] p = "longest_compliance" -> at <= last_completed_week(now)
      [] p = "days_since_over_limit" -> st = None /\ at < YearDays
      [] p = "weekends" -> at <= now
      [] p = "perfect_weeks" -> at <= last_completed_week(now)

\* one pass of the loop
ScanBody(p, entries, now, at, st) ==
    CASE p = "current_abstinence" -> AbstinenceBody(entries, now, at, st)
      [] p = "longest_abstinence" ->
             LongestAbstinenceBody(scan.sorted_entries, at, st)
      [] p = "current_compliance" ->
             ComplianceBody(entries, last_completed_week(now), at, st)
      [] p = "longest_compliance" ->
             LongestComplianceBody(entries, first_week_start(entries),
                 (at - first_week_start(entries)) \div 7, st)
      [] p = "days_since_over_limit" -> OverLimitBody(entries, now, at, st)
      [] p = "weekends" ->
             WeekendBody(entries, first_saturday(entries),
                 (at - first_saturday(entries)) \div 7, st)
      [] p = "perfect_weeks" ->
             PerfectBody(entries, first_week_start(entries),
                 (at - first_week_start(entries)) \div 7, st)

\* the date left where it is at the end of a pass
NextWeekStart_stuck(at) == at

\* week_start += timedelta(days=7)
NextWeekStart(at) == at + 7

\* the loop variable after a pass
ScanAdvance(p, at) == IF p \in WeeklyPhases THEN NextWeekStart(at) ELSE at + 1

\* the value the loop leaves behind
ScanValue(p, st) ==
    CASE p \in {"current_abstinence", "current_compliance"} -> st.streak
      [] p \in {"longest_abstinence", "longest_compliance"} -> st.longest
      [] OTHER -> st

\* the call at the top of loop number n, with the values of the loops
\* before it, the list it was given and the list sorted on entry
ScanAt(n, entries, now, values, sorted_entries) ==
    [phase |-> ScanPhases[n], n |-> n,
     at |-> ScanFirst(ScanPhases[n], entries, now),
     st |-> ScanVars(ScanPhases[n], entries, now),
     passes |-> 0, values |-> values,
     entries |-> entries, sorted_entries |-> sorted_entries]

ScanLooping == scan.phase \notin {"idle", "done"}

\* the dictionary calculate_streaks returns, from the loops' values
ScanResult(values) ==
    [current_abstinence |-> values[1],
     longest_abstinence |-> values[2],
     current_compliance_weeks |-> values[3],
     longest_compliance_weeks |-> values[4],
     days_since_over_limit |-> values[5],
     total_alcohol_free_weekends |-> values[6],
     perfect_weeks |-> values[7]]

\* cli.streaks enters calculate_streaks; an empty list returns at once
ScanStart ==
    /\ scan = ScanIdle
    /\ ~LoadRaises(store)
    /\ IF load_entries = <<>>
       THEN /\ scan' = [phase |-> "done"]
            /\ out' = [cmd |-> "streaks",
                       streaks |-> calculate_streaks(<<>>, today)]
       ELSE /\ scan' = ScanAt(1, load_entries, today, <<>>,
                              sorted_by_day(load_entries))
            /\ UNCHANGED out
    /\ UNCHANGED <<store, today, writers>>

\* one pass of the loop the call is in
ScanPass ==
    /\ ScanLooping
    /\ ScanGuard(scan.phase, scan.entries, today, scan.at, scan.st)
    /\ scan' = [scan EXCEPT
                    !.st = ScanBody(scan.phase, scan.entries, today,
                                    scan.at, scan.st),
                    !.at = ScanAdvance(scan.phase, scan.at),
                    !.passes = scan.passes + 1]
    /\ UNCHANGED <<store, today, out, writers>>

\* the loop is left: on to the next loop, or return after the last
ScanExit ==
    /\ ScanLooping
    /\ ~ScanGuard(scan.phase, scan.entries, today, scan.at, scan.st)
    /\ LET values == Append(scan.values, ScanValue(scan.phase, scan.st))
       IN  IF scan.n < Len(ScanPhases)
           THEN /\ scan' = ScanAt(scan.n + 1, scan.entries, today, values,
                                   scan.sorted_entries)
                /\ UNCHANGED out
           ELSE /\ scan' = [phase |-> "done"]
                /\ out' = [cmd |-> "streaks", streaks |-> ScanResult(values)]
    /\ UNCHANGED <<store, today, writers>>

\* sparse, all-absent, without drinking day, dated after today
ScanDays ==
    {StreakToday - (YearDays + 1), StreakToday - 8, StreakToday - 1,
     StreakToday, StreakToday + 3}

\* a 0 on the Monday of each of the last LongWeeks weeks: no scan meets a
\* record that stops it
ScanLongStore == MondayRows(WeekMonday, LongWeeks, 0, {Some(0)})

ScanCounts == {None, Some(0), Some(4)}

InitScan ==
    /\ store \in Stores(ScanDays, ScanCounts, MaxScanEntries)
                      \cup {ScanLongStore}
    /\ today = StreakToday
    /\ out = [cmd |-> "none"]
    /\ scan = ScanIdle
    /\ writers = NoWriters

NextScan == ScanStart \/ ScanPass \/ ScanExit

SpecScan == InitScan /\ [][NextScan]_vars

ScanDone == scan.phase = "done"

\* the most passes of a loop that counts: 365 days or 104 weeks back, or
\* the rows of the list
ScanLimit(p) ==
    CASE p \in {"current_abstinence", "days_since_over_limit"} -> YearDays
      [] p = "current_compliance" -> ComplianceWeeks
      [] p = "longest_abstinence" -> Len(store)

\* the end bound of a loop that steps a date forward: today, or the Monday
\* of the last completed week
ScanEnd(p) == IF p = "weekends" THEN today ELSE MondayOf(today) - 7

\* a counting loop is within its limit; a forward loop has not run more
\* than one step past its end bound
ScanWithinLimits ==
    ScanLooping =>
        IF scan.phase \in WeeklyPhases
        THEN scan.passes = 0 \/ scan.at <= ScanEnd(scan.phase) + 7
        ELSE scan.passes <= ScanLimit(scan.phase)

\* a step of the call is a pass (within the limit of a counting loop,
\* moving the date of a forward loop towards its end bound), the move to
\* the next loop, or the return
ScanProgress ==
    /\ ScanWithinLimits'
    /\ ScanLooping =>
           \/ scan'.phase = "done"
           \/ scan'.n = scan.n + 1 /\ scan'.passes = 0
           \/ /\ scan'.n = scan.n
              /\ scan'.passes = scan.passes + 1
              /\ scan.phase \in WeeklyPhases =>
                     scan.at <= ScanEnd(scan.phase) /\ scan'.at > scan.at

\* C22: calculate_streaks terminates on every record collection: each
\* backward scan stops after at most 365 days or 104 weeks also when no
\* record stops it, and each forward scan reaches its end bound (the last
\* completed week or today).  Every step moves the call forward: a
\* counting loop stays within its limit, a forward loop moves its date
\* closer to the end bound, so the call returns after finitely many steps.
C22_ScansTerminate == [][ScanProgress]_vars

\* the call has returned on the long store: the backward scan of the weeks
\* met no record to stop it and ended at 104
C22_Witness ==
    /\ ScanDone
    /\ store = ScanLongStore
    /\ out.streaks.current_compliance_weeks = ComplianceWeeks

\* the call, when it returns, returns what calculate_streaks is
ScanAgrees ==
    ScanDone => out.streaks = calculate_streaks(LoadRows(store), today)

\* ------------------------------------------------------------------------
\* upsert_entry on days of the last completed week, of the week in
\* progress and after it, with the streak view in between
\* ------------------------------------------------------------------------

\* Tuesday and Sunday of last week, Monday of this week, today (Wednesday)
\* and Saturday
ProgressDays ==
    {StreakToday - 8, WeekMonday - 1, WeekMonday, StreakToday, StreakToday + 3}

ProgressCounts == {None, Some(0), Some(3)}

InitProgress ==
    /\ store \in Stores(ProgressDays, ProgressCounts, MaxProgressEntries)
    /\ today = StreakToday
    /\ out = [cmd |-> "none"]
    /\ scan = ScanIdle
    /\ writers = NoWriters

NextProgress ==
    \/ \E target_day \in {WeekMonday - 1, WeekMonday, StreakToday + 3},
          count \in {Some(0), Some(3)} :
           upsert_entry(target_day, count, None)
    \/ streaks

SpecProgress == InitProgress /\ [][NextProgress]_vars

\* perfect_weeks and longest_compliance_weeks of calculate_streaks on the
\* records of a file
CompletedWeekValues(file) ==
    LET entries == LoadRows(file)
    IN  IF entries = <<>> THEN <<0, 0>>
        ELSE <<perfect_weeks(entries, today),
               longest_compliance_weeks(entries, today)>>

\* C23: perfect_weeks and longest_compliance_weeks depend only on records
\* dated before the Monday of today's week: an upsert of a day of the week
\* in progress or later (a drinking Monday after a drinking Sunday of the
\* last completed week included) leaves both as they were.
C23_CompletedWeeksOnly ==
    [][(out'.cmd = "upsert_entry" /\ out'.entry.day >= MondayOf(today))
          => CompletedWeekValues(store') = CompletedWeekValues(store)]_vars

\* a drinking Monday has been recorded after last week's drinking Sunday,
\* and last week still counts as a compliant week
C23_Witness ==
    /\ Upserted
    /\ out.entry.day = WeekMonday
    /\ Drank(WeekMonday)
    /\ Drank(WeekMonday - 1)
    /\ CompletedWeekValues(store) = <<0, 1>>

\* ------------------------------------------------------------------------
\* What upsert_entry changes in the records
\* ------------------------------------------------------------------------

\* the record of the day as load_entries returns it from the file, or None
RecordOf(file, day) == find_entry(LoadRows(file), day)

\* the days with a record in the file
RecordDays(file) == {LoadRows(file)[i].day : i \in 1..Len(LoadRows(file))}

\* the step is a call of upsert_entry that has written the file
UpsertStep == out'.cmd = "upsert_entry"

\* the records of the days other than the upserted one are as before
OtherDaysKept ==
    \A d \in (RecordDays(store) \cup RecordDays(store')) \ {out'.target_day} :
        RecordOf(store', d) = RecordOf(store, d)

\* the count of the upserted day's record after the call
CountAsGiven ==
    LET before == RecordOf(store, out'.target_day)
        after == RecordOf(store', out'.target_day)
    IN  /\ after # None
        /\ after[1].count =
               IF before = None \/ out'.count # None THEN out'.count
               ELSE before[1].count

\* C24 as stated: upsert_entry(day, count, note) changes only the record
\* for `day`: a new record gets the given count and the given note (empty
\* when none is given), an existing record's count and note are replaced
\* only if given, and the records of all other days keep their day, count
\* and note.
C24_RecordHoldsGivenNote ==
    [][UpsertStep =>
          LET before == RecordOf(store, out'.target_day)
              after == RecordOf(store', out'.target_day)
          IN  /\ CountAsGiven
              /\ OtherDaysKept
              /\ after[1].note =
                     IF out'.note # None THEN out'.note[1]
                     ELSE IF before = None THEN "" ELSE before[1].note]_vars

\* C24: as above, with the note of the record being the given note as
\* load_entries reads it back: without its leading and trailing
\* whitespace.
C24_OnlyTheDayChanges ==
    [][UpsertStep =>
          LET before == RecordOf(store, out'.target_day)
              after == RecordOf(store', out'.target_day)
          IN  /\ CountAsGiven
              /\ OtherDaysKept
              /\ after[1].note =
                     IF out'.note # None THEN strip(out'.note[1])
                     ELSE IF before = None THEN "" ELSE before[1].note]_vars

\* a note with a leading blank was given without a count for a day whose
\* record holds 2, next to the record of another day: the count is kept
\* and the note reads back without the blank
C24_Witness ==
    /\ Upserted
    /\ out.target_day = StreakToday
    /\ out.count = None
    /\ out.note = Some(" a")
    /\ RecordOf(store, StreakToday) = Some(Entry(StreakToday, Some(2), "a"))
    /\ RecordOf(store, StreakToday - 1) # None

\* ------------------------------------------------------------------------
\* The commands `set` and `add` of the command line
\* ------------------------------------------------------------------------

\* today - timedelta(days=1) if yesterday else today
resolve_day(yesterday) == IF yesterday THEN today - 1 ELSE today

\* typer rejects an argument below min=0 before the command body runs
BadParameter(cmd) == [cmd |-> "error", of |-> cmd, error |-> "BadParameter"]

\* the file upsert_entry leaves behind when load_entries does not raise
UpsertFile(file, target_day, count, note) ==
    LET entries == UpsertEntries(LoadRows(file), target_day, count, note)
    IN  [i \in 1..Len(entries) |-> to_row(entries[i])]

\* the increment stored as the count, whatever the day held
AddCount_from_zero(file, day, n) == n

\* existing.count if (existing and existing.count is not None) else 0,
\* plus n
AddCount(file, day, n) ==
    LET existing == find_entry(LoadRows(file), day)
        current == IF existing # None /\ existing[1].count # None
                   THEN existing[1].count[1] ELSE 0
    IN  current + n

\* the file `add n` leaves behind: upsert_entry(day, new)
AddFile(file, day, n) == UpsertFile(file, day, Some(AddCount(file, day, n)), None)

\* butler set N [--yesterday] [--note TEXT]
set(n, yesterday, note) ==
    LET day == resolve_day(yesterday)
    IN  IF n < 0
        THEN /\ out' = BadParameter("set")
             /\ UNCHANGED <<store, today, scan, writers>>
        ELSE IF LoadRaises(store)
        THEN /\ out' = Crashed("set")
             /\ UNCHANGED <<store, today, scan, writers>>
        ELSE /\ store' = UpsertFile(store, day, Some(n), note)
             /\ out' = [cmd |-> "set", day |-> day, n |-> n]
             /\ UNCHANGED <<today, scan, writers>>

\* butler add [N] [--yesterday]; the tally of the model stops at MaxTally
add(n, yesterday) ==
    LET day == resolve_day(yesterday)
    IN  IF n < 0
        THEN /\ out' = BadParameter("add")
             /\ UNCHANGED <<store, today, scan, writers>>
        ELSE IF LoadRaises(store)
        THEN /\ out' = Crashed("add")
             /\ UNCHANGED <<store, today, scan, writers>>
        ELSE /\ AddCount(store, day, n) <= MaxTally
             /\ store' = AddFile(store, day, n)
             /\ out' = [cmd |-> "add", day |-> day, n |-> n]
             /\ UNCHANGED <<today, scan, writers>>

\* rows of yesterday and today as an editor can leave them, with an absent
\* count, a count below 0, a note to strip, a date or a count that does
\* not parse
CliRows ==
    {Entry(d, count, "") :
        d \in UpsertDays, count \in {None, Some(0 - 1), Some(1)}}
    \cup {Entry(StreakToday, None, " a"), Entry(BadDate, Some(1), ""),
          Entry(StreakToday - 1, BadCount, "")}

\* the arguments of the commands: below 0, 0, and increments
CliAmounts == {0 - 1, 0, 1, 2}

InitCli ==
    /\ store \in Files(CliRows, MaxCliRows)
    /\ today = StreakToday
    /\ out = [cmd |-> "none"]
    /\ scan = ScanIdle
    /\ writers = NoWriters

NextCli ==
    \/ \E n \in CliAmounts, yesterday \in BOOLEAN,
          note \in {None, Some(" a")} :
           set(n, yesterday, note)
    \/ \E n \in CliAmounts, yesterday \in BOOLEAN : add(n, yesterday)

SpecCli == InitCli /\ [][NextCli]_vars

\* the count of the day's record, a missing record or an absent count
\* being 0
EffectiveCount(file, day) ==
    LET record == RecordOf(file, day)
    IN  IF record = None \/ record[1].count = None THEN 0
        ELSE record[1].count[1]

\* the note of the day's record, none being the empty note
NoteOf(file, day) ==
    IF RecordOf(file, day) = None THEN "" ELSE RecordOf(file, day)[1].note

\* C25: `add n` (n >= 0) sets the day's count to its previous effective
\* count plus n (a missing record or an absent count being 0) and leaves
\* the day's note and the records of all other days as they were; `add n`
\* followed by `add a` leaves the same file as a single `add (n + a)`, and
\* `set m` followed by `add n` leaves the count m + n.
C25_AddIncrements ==
    [][out'.cmd = "add" =>
          LET day == out'.day
              n == out'.n
          IN  /\ n >= 0
              /\ RecordOf(store', day) # None
              /\ RecordOf(store', day)[1].count =
                     Some(EffectiveCount(store, day) + n)
              /\ NoteOf(store', day) = NoteOf(store, day)
              /\ \A d \in (RecordDays(store) \cup RecordDays(store')) \ {day} :
                     RecordOf(store', d) = RecordOf(store, d)
              /\ \A a \in CliAmounts :
                     a >= 0 => AddFile(store', day, a) = AddFile(store, day, n + a)
              /\ (out.cmd = "set" /\ out.day = day) =>
                     EffectiveCount(store', day) = out.n + n]_vars

\* `add 2` has run after `set 1 --note`: the day holds 3 and its note,
\* next to yesterday's record
C25_Witness ==
    /\ out.cmd = "add"
    /\ out.day = StreakToday
    /\ out.n = 2
    /\ RecordOf(store, StreakToday) = Some(Entry(StreakToday, Some(3), "a"))
    /\ RecordOf(store, StreakToday - 1) # None

\* ------------------------------------------------------------------------
\* Two processes writing the store: each runs its load-modify-write in
\* steps, `writers` holding each one's position and local values
\* ------------------------------------------------------------------------

\* the count after a key press: 0 -> 1 -> 2 -> 3 -> 4 -> 0
CycleCount(current) == IF current \in 0..3 THEN current + 1 ELSE 0

\* the count a writer computes from the count it has read
NewCount(w) == IF w.kind = "add" THEN w.current + w.n ELSE CycleCount(w.current)

\* `butler add n` or a key press in the console, before its first step
WriterStarts ==
    {[kind |-> kind, day |-> day, n |-> n, pc |-> "start",
      current |-> 0, new |-> 0, entries |-> <<>>] :
        kind \in {"add", "cycle"}, day \in UpsertDays, n \in {1, 2}}

\* load_entries and find_entry in cli.add or get_current_drinks: the count
\* of the day is read and the new count computed
WriterRead(i) ==
    /\ writers[i].pc = "start"
    /\ writers' = [writers EXCEPT
                       ![i].pc = "computed",
                       ![i].current = AddCount(store, writers[i].day, 0),
                       ![i].new = NewCount([writers[i] EXCEPT
                           !.current = AddCount(store, writers[i].day, 0)])]
    /\ UNCHANGED <<store, today, out, scan>>

\* entries = load_entries() in upsert_entry
WriterLoad(i) ==
    /\ writers[i].pc = "computed"
    /\ writers' = [writers EXCEPT ![i].pc = "loaded",
                                  ![i].entries = LoadRows(store)]
    /\ UNCHANGED <<store, today, out, scan>>

\* p.open("w"): the file is cut to nothing before the rows are written
WriterTruncate(i) ==
    /\ writers[i].pc = "loaded"
    /\ writers' = [writers EXCEPT ![i].pc = "truncated"]
    /\ store' = <<>>
    /\ UNCHANGED <<today, out, scan>>

\* the header and the rows of the writer's updated list reach the file
WriterWrite(i) ==
    /\ writers[i].pc = "truncated"
    /\ LET w == writers[i]
           entries == UpsertEntries(w.entries, w.day, Some(w.new), None)
       IN  store' = [k \in 1..Len(entries) |-> to_row(entries[k])]
    /\ writers' = [writers EXCEPT ![i].pc = "done"]
    /\ UNCHANGED <<today, out, scan>>

WriterCounts == {None, Some(0), Some(1)}

InitWriters ==
    /\ store \in Stores(UpsertDays, WriterCounts, MaxWriterEntries)
    /\ today = StreakToday
    /\ out = [cmd |-> "none"]
    /\ scan = ScanIdle
    /\ writers \in [1..2 -> WriterStarts]

NextWriters ==
    \E i \in 1..2 :
        WriterRead(i) \/ WriterLoad(i) \/ WriterTruncate(i) \/ WriterWrite(i)

SpecWriters == InitWriters /\ [][NextWriters]_vars

WritersDone == \A i \in 1..2 : writers[i].pc = "done"

\* C26: store writes are not lost under interleaving: when two writers
\* have each finished a load-modify-write upsert, the store holds the
\* record of each writer's day, with the count the writer wrote when the
\* days differ, and with the count increased by both increments when both
\* are `add` on the same day (no stored count is below 0, so the count is
\* then at least the sum of the increments).
C26_NoLostUpdate ==
    WritersDone =>
        /\ \A i \in 1..2 : RecordOf(store, writers[i].day) # None
        /\ writers[1].day # writers[2].day =>
               \A i \in 1..2 :
                   RecordOf(store, writers[i].day)[1].count
                       = Some(writers[i].new)
        /\ (/\ writers[1].day = writers[2].day
            /\ writers[1].kind = "add"
            /\ writers[2].kind = "add") =>
               EffectiveCount(store, writers[1].day)
                   >= writers[1].n + writers[2].n

\* both writers are done one after the other: the second read the count
\* the first had written
WritersSerial ==
    /\ WritersDone
    /\ writers[1].day = writers[2].day
    /\ writers[2].current = writers[1].new

\* ------------------------------------------------------------------------
\* The compliance streak of the console's insight panel
\* ------------------------------------------------------------------------

\* InsightPanel.calculate_streaks, its compliance_streak: weeks counted
\* back from the week in progress, `for i in range(52)`
compliance_streak(entries, now) ==
    LET current_week_start == now - weekday(now)
        Body(i, st) == ComplianceBody(entries, current_week_start, i, st)
    IN  IF entries = <<>> THEN 0
        ELSE Loop(Body, 0, ConsoleWeeks - 1,
                  [done |-> FALSE, streak |-> 0]).streak

\* InsightPanel.update_insights: the panel loads the entries and shows
\* its streaks
update_insights ==
    /\ out' = IF LoadRaises(store) THEN Crashed("update_insights")
              ELSE [cmd |-> "update_insights",
                    compliance_streak |->
                        compliance_streak(load_entries, today)]
    /\ UNCHANGED <<store, today, scan, writers>>

InitInsights ==
    /\ store \in Stores(StreakDays, WeekCounts, MaxInsightEntries)
                      \cup LongStores
    /\ today = StreakToday
    /\ out = [cmd |-> "none"]
    /\ scan = ScanIdle
    /\ writers = NoWriters

NextInsights == update_insights \/ streaks

SpecInsights == InitInsights /\ [][NextInsights]_vars

InsightsShown == out.cmd = "update_insights"

\* C28: for the same records and the same today, the compliance streak
\* the console shows equals current_compliance_weeks of
\* storage.calculate_streaks: both count completed weeks only and neither
\* counts the week in progress.
C28_ConsoleAgrees ==
    InsightsShown =>
        out.compliance_streak = current_compliance_weeks(LoadRows(store), today)

\* the console has counted the week in progress
InsightsCountThisWeek ==
    /\ InsightsShown
    /\ out.compliance_streak = 1
    /\ current_compliance_weeks(LoadRows(store), today) = 0

\* ------------------------------------------------------------------------
\* The week view on every filling of a week: each of the Sunday before
\* the week and the seven days of the week without a row, or with a row
\* whose count is absent, 0 or positive
\* ------------------------------------------------------------------------

FullWeekCounts == {None, Some(0), Some(2)}

InitFullWeek ==
    /\ store \in Stores(WeekDays, FullWeekCounts, Cardinality(WeekDays))
    /\ today = WeekMonday + 1
    /\ out = [cmd |-> "none"]
    /\ scan = ScanIdle
    /\ writers = NoWriters

NextFullWeek == week(None)

SpecFullWeek == InitFullWeek /\ [][NextFullWeek]_vars

\* the days of the shown week with a positive count
DrinkingDaysShown ==
    {d \in out.wk.start..out.wk.end : Drank(d)}

\* C29: for a day-unique record collection, if rule_gap_ok is true then
\* drinking_days <= 4, and drinking_days = 4 with rule_gap_ok true only
\* when the drinking days are Monday, Wednesday, Friday and Sunday: a
\* week can satisfy the gap rule and still break the 3-days rule.
C29_GapBoundsDrinkingDays ==
    (WeekShown /\ out.wk.rule_gap_ok) =>
        /\ out.wk.drinking_days <= 4
        /\ out.wk.drinking_days = 4 =>
               DrinkingDaysShown = {out.wk.start, out.wk.start + 2,
                                    out.wk.start + 4, out.wk.start + 6}

\* drinks on Monday, Wednesday, Friday and Sunday: the gap rule holds and
\* the 3-days rule does not
C29_Witness ==
    /\ WeekShown
    /\ out.wk.rule_gap_ok
    /\ out.wk.drinking_days = 4
    /\ ~out.wk.rule_days_ok
    /\ ~out.wk.rule_ok

\* C30: for a day-unique record collection whose counts are absent or
\* not negative, every week summary has drinking_days + abstinent_days =
\* recorded_days <= 7 and total_drinks >= drinking_days, and a week with
\* drinking_days = 0 has rule_ok true.
C30_WeekCounters ==
    WeekShown =>
        /\ out.wk.drinking_days + out.wk.abstinent_days = out.wk.recorded_days
        /\ out.wk.recorded_days <= 7
        /\ out.wk.total_drinks >= out.wk.drinking_days
        /\ out.wk.drinking_days = 0 => out.wk.rule_ok

\* a row on each of the seven days, one of them with an absent count and
\* none with a drink: six recorded days, all abstinent, and rule_ok
C30_Witness ==
    /\ WeekShown
    /\ \A d \in out.wk.start..out.wk.end :
           \E i \in 1..Len(store) : store[i].day = d
    /\ out.wk.recorded_days = 6
    /\ out.wk.abstinent_days = 6
    /\ out.wk.drinking_days = 0
    /\ out.wk.rule_ok

====
